---- MODULE Spec2Model ----
(***************************************************************************)
(* Model of the safe Rust wrapper of the UCRA engine                       *)
(* (bindings/rust/ucra/src/lib.rs) and of the WAV writer of its example   *)
(* (bindings/rust/ucra/examples/emit_wav.rs).                              *)
(*                                                                         *)
(* The engine itself is a foreign library: every value it returns (result  *)
(* codes, handles, buffer contents, result structs) is an input, chosen    *)
(* nondeterministically from small sets.                                   *)
(*                                                                         *)
(* Machine integers wider than 31 bits are little-endian byte sequences    *)
(* (u32 = 4 bytes, u64/usize = 8 bytes), so that casts, truncation and     *)
(* wrap-around are computed at their real width.  A 64-bit target is       *)
(* modelled (usize = 8 bytes).  Overflow of `*` and `+` panics in a debug  *)
(* build and wraps in a release build: the build is part of the input.     *)
(***************************************************************************)
EXTENDS Integers, Sequences, FiniteSets

VARIABLES
    code,       \* check: the result code handed to check
    checked,    \* check: what check returned, Pending before the call
    engine,     \* per handle: "none", "alive" (an Engine owns it), "dropped"
    calls,      \* per handle: the foreign calls made with it, in order
    cfg,        \* per configuration: "none", "alive", "dropped"
    view,       \* per handle: the RenderResult of its last render
    info,       \* what the engine writes into an info buffer
    ret,        \* what the last wrapper operation returned
    build,      \* "debug" (overflow panics) or "release" (overflow wraps)
    rr,         \* pcm: the UCRA_RenderResult inside a RenderResult
    got,        \* pcm: what pcm(), frames(), channels(), sample_rate() gave
    wav,        \* wav: the arguments of write_wav_float32
    file,       \* wav: the bytes written to the file
    wavRes,     \* wav: "pending", "ok", "io_error" or "panic"
    f0,         \* notes: the F0Curve the driver holds, if any
    env,        \* notes: the EnvCurve the driver holds, if any
    config,     \* notes: the RenderConfig the driver built, if any
    tried       \* notes: the last constructor call and whether it panicked

checkVars == <<code, checked>>
lifeVars == <<engine, calls, cfg, view, info, ret>>
pcmVars == <<rr, got>>
wavVars == <<wav, file, wavRes>>
noteVars == <<f0, env, config, tried>>
vars == <<code, checked, engine, calls, cfg, view, info, ret, build, rr, got,
          wav, file, wavRes, f0, env, config, tried>>

----------------------------------------------------------------------------
(* Bounds *)

\* result codes -MaxCode..MaxCode are tried, with the 32-bit boundary values
MaxCode == 30
\* engines created in one run
MaxEngines == 1
\* render configurations built in one run
MaxConfigs == 1
\* foreign calls logged per handle before only its destruction is left
MaxCalls == 3
\* bytes the engine writes at the start of the info buffer before it pads
MaxInfoLen == 3
\* samples in the buffer handed to write_wav_float32
MaxSamples == 2
\* samples in a short slice handed to F0Curve::new or EnvCurve::new
MaxCurveLen == 2
\* notes handed to RenderConfig::new
MaxNotes == 2

----------------------------------------------------------------------------
(* Program constants *)

\* vec![0u8; 128], the buffer get_info hands to the engine
InfoBufLen == 128

----------------------------------------------------------------------------
(* Machine integers as little-endian byte sequences *)

RECURSIVE LeBytes(_, _)
\* the w low bytes of the natural number n, least significant first
LeBytes(n, w) ==
    IF w = 0 THEN <<>> ELSE <<n % 256>> \o LeBytes(n \div 256, w - 1)

MinI32 == (-1073741824) - 1073741824
MaxI32 == 1073741823 + 1073741824

\* `code as u32`: the two's complement bit pattern of an i32
AsU32(c) ==
    IF c >= 0 THEN LeBytes(c, 4)
    ELSE [LeBytes((c + 1073741824) + 1073741824, 4) EXCEPT ![4] = @ + 128]

\* `other as i32`: the i32 with the bit pattern of a u32
AsI32(b) ==
    LET low == b[1] + 256 * b[2] + 65536 * b[3] + 16777216 * (b[4] % 128)
    IN  IF b[4] >= 128 THEN (low - 1073741824) - 1073741824 ELSE low

RECURSIVE Norm(_)
\* a byte sequence without its most significant zero bytes: two byte
\* sequences are the same number exactly when their Norm is equal
Norm(a) ==
    IF a = <<>> THEN <<>>
    ELSE IF a[Len(a)] = 0 THEN Norm(SubSeq(a, 1, Len(a) - 1))
    ELSE a

RECURSIVE MulByte(_, _, _)
\* a * d + carry for one byte d
MulByte(a, d, carry) ==
    IF a = <<>> THEN (IF carry = 0 THEN <<>> ELSE <<carry>>)
    ELSE LET t == a[1] * d + carry
         IN  <<t % 256>> \o MulByte(Tail(a), d, t \div 256)

RECURSIVE AddBytes(_, _, _)
\* a + b + carry
AddBytes(a, b, carry) ==
    IF a = <<>> /\ b = <<>> THEN (IF carry = 0 THEN <<>> ELSE <<carry>>)
    ELSE LET x == IF a = <<>> THEN 0 ELSE a[1]
             y == IF b = <<>> THEN 0 ELSE b[1]
             t == x + y + carry
         IN  <<t % 256>> \o AddBytes(IF a = <<>> THEN a ELSE Tail(a),
                                      IF b = <<>> THEN b ELSE Tail(b),
                                      t \div 256)

RECURSIVE MulBytes(_, _)
\* the exact product a * b, of any width
MulBytes(a, b) ==
    IF b = <<>> THEN <<>>
    ELSE AddBytes(MulByte(a, b[1], 0), <<0>> \o MulBytes(a, Tail(b)), 0)

\* the w low bytes of a, zero extended
Low(a, w) == [i \in 1..w |-> IF i <= Len(a) THEN a[i] ELSE 0]

\* `a * b` at a width of w bytes: the wrapped product, and whether the exact
\* product did not fit
MulW(a, b, w) ==
    LET exact == MulBytes(a, b)
    IN  [val |-> Low(exact, w), over |-> Len(Norm(exact)) > w]

\* `a + b` at a width of w bytes
AddW(a, b, w) ==
    LET exact == AddBytes(a, b, 0)
    IN  [val |-> Low(exact, w), over |-> Len(Norm(exact)) > w]

Builds == {"debug", "release"}

U64(n) == LeBytes(n, 8)
U32(n) == LeBytes(n, 4)

----------------------------------------------------------------------------
(* The parts of the state an operation does not touch, at rest *)

\* no accessor of a RenderResult has been called
NotRead == [kind |-> "pending", len |-> <<>>, frames |-> <<>>,
            channels |-> <<>>, sample_rate |-> <<>>]

PcmIdle ==
    /\ build = "release"
    /\ rr = [pcm |-> 0, frames |-> U64(0), channels |-> U32(0),
             sample_rate |-> U32(0)]
    /\ got = NotRead

\* A slice &[f32] is its pointer and its length, a usize; the constructors
\* read nothing else of it.
NoSlice == [ptr |-> "none", len |-> U64(0)]

\* no curve: the driver holds none yet.  raw is the curve's raw struct,
\* marker the two slices its lifetime is tied to (PhantomData<&'a [f32]>)
NoCurve == [exists |-> FALSE,
            raw |-> [time_sec |-> "none", value |-> "none",
                     length |-> U32(0)],
            marker |-> [time_sec |-> NoSlice, value |-> NoSlice]]

NoConfig ==
    [exists |-> FALSE,
     raw |-> [sample_rate |-> U32(0), channels |-> U32(0), block_size |-> 0,
              flags |-> 0, notes |-> <<>>, note_count |-> U32(0),
              options |-> <<>>, option_count |-> 0],
     c_notes |-> <<>>]

NoTry == [op |-> "none", time |-> NoSlice, value |-> NoSlice, notes |-> <<>>,
          panicked |-> FALSE]

NoteIdle ==
    /\ f0 = NoCurve
    /\ env = NoCurve
    /\ config = NoConfig
    /\ tried = NoTry

WavIdle ==
    /\ wav = [pcm |-> <<>>, sample_rate |-> U32(0), channels |-> U32(0),
              disk |-> TRUE, room |-> -1]
    /\ file = <<>>
    /\ wavRes = "pending"

----------------------------------------------------------------------------
(* Error and check  (lib.rs 6-38) *)

Ok == [kind |-> "Ok", raw |-> 0]
Err(k) == [kind |-> k, raw |-> 0]
Unknown(v) == [kind |-> "Unknown", raw |-> v]
Pending == [kind |-> "Pending", raw |-> 0]

\* a check that matches on the low byte only (`code as u8`)
checkLowByte(c) ==
    LET u == AsU32(c)
    IN  CASE u[1] = 0 -> Ok
          [] u[1] = 1 -> Err("InvalidArgument")
          [] u[1] = 2 -> Err("OutOfMemory")
          [] u[1] = 3 -> Err("NotSupported")
          [] u[1] = 4 -> Err("Internal")
          [] u[1] = 5 -> Err("FileNotFound")
          [] u[1] = 6 -> Err("InvalidJson")
          [] u[1] = 7 -> Err("InvalidManifest")
          [] OTHER -> Unknown(AsI32(u))

check(c) ==
    LET u == AsU32(c)
    IN  CASE u = <<0, 0, 0, 0>> -> Ok
          [] u = <<1, 0, 0, 0>> -> Err("InvalidArgument")
          [] u = <<2, 0, 0, 0>> -> Err("OutOfMemory")
          [] u = <<3, 0, 0, 0>> -> Err("NotSupported")
          [] u = <<4, 0, 0, 0>> -> Err("Internal")
          [] u = <<5, 0, 0, 0>> -> Err("FileNotFound")
          [] u = <<6, 0, 0, 0>> -> Err("InvalidJson")
          [] u = <<7, 0, 0, 0>> -> Err("InvalidManifest")
          [] OTHER -> Unknown(AsI32(u))

\* the documented error kinds of the codes 1..7, in order
KindOf ==
    <<"InvalidArgument", "OutOfMemory", "NotSupported", "Internal",
      "FileNotFound", "InvalidJson", "InvalidManifest">>

\* the result codes tried: a range around 0 and the boundary values of i32
Codes ==
    (-MaxCode .. MaxCode)
        \cup {MinI32, MinI32 + 1, MaxI32, MaxI32 - 1, 255, 256, 257, 263,
              -256, 65536, 65543, 16777216, -16777216}


----------------------------------------------------------------------------
(* Engine, RenderConfig and RenderResult as owned values  (lib.rs 42-76) *)

Handles == 1..MaxEngines
CfgIds == 1..MaxConfigs

\* codes the engine answers with: success, a documented error, unknown ones
EngineCodes == {0, 4, 256, -1}

\* the UCRA_RenderResult the engine wrote into the output slot
RawResults ==
    {[pcm |-> 4096, frames |-> U64(2), channels |-> U32(1),
      sample_rate |-> U32(44100)]}

\* read: whether the view has been read and whether its configuration was
\* alive then; held: whether every read so far found the engine alive with
\* the render that made the view as its last call
NoView == [state |-> "none", cfg |-> 0,
           raw |-> [pcm |-> 0, frames |-> U64(0), channels |-> U32(0),
                    sample_rate |-> U32(0)],
           read |-> "never", held |-> TRUE]

NoRet == [op |-> "none", handle |-> 0, code |-> 0, res |-> Pending,
          has |-> FALSE, text |-> <<>>, slotRead |-> FALSE, buf |-> <<>>]

LifeIdle ==
    /\ engine = [h \in Handles |-> "none"]
    /\ calls = [h \in Handles |-> <<>>]
    /\ cfg = [k \in CfgIds |-> "none"]
    /\ view = [h \in Handles |-> NoView]
    /\ info = [text |-> <<>>, fill |-> 0]
    /\ ret = NoRet

CheckIdle ==
    /\ code = 0
    /\ checked = Pending

\* an Engine that could still be used after its drop
usableAfterDrop(h) == engine[h] # "none"

\* a method taking &self or &mut self needs an Engine that has not been
\* dropped: Engine is neither Clone nor Copy
Usable(h) == engine[h] = "alive"

\* render returns RenderResult<'_> with the lifetime of &mut self: any later
\* use of the engine (a call, its drop) ends the borrow the view holds
\* a view that outlives the borrow
expireLeak(v) == v

\* the view is gone: nothing of it can be used any more
Expire(v) == NoView

\* Drop for Engine: one ucra_engine_destroy on the handle
dropTwice(log) == log \o <<"destroy", "destroy">>
DropCalls(log) == Append(log, "destroy")

\* Engine::new  (lib.rs 47-51): c is the code of ucra_engine_create; on
\* success the engine has produced the fresh handle h
EngineNew(c) ==
    LET r == check(c)
    IN  IF r = Ok
        THEN \E h \in Handles :
                /\ engine[h] = "none"
                /\ \A g \in Handles : g < h => engine[g] # "none"
                /\ engine' = [engine EXCEPT ![h] = "alive"]
                /\ calls' = [calls EXCEPT ![h] = <<"create">>]
                /\ ret' = [NoRet EXCEPT !.op = "new", !.handle = h, !.code = c,
                                        !.res = r, !.has = TRUE]
                /\ UNCHANGED <<cfg, view, info, checkVars, build, pcmVars, wavVars, noteVars>>
        ELSE /\ ret' = [NoRet EXCEPT !.op = "new", !.code = c, !.res = r]
             /\ UNCHANGED <<engine, calls, cfg, view, info, checkVars, build, pcmVars, wavVars, noteVars>>

\* a render without the `?`: the output slot is read whatever the code
renderUnchecked(h, k, c, raw) ==
    /\ Usable(h)
    /\ cfg[k] = "alive"
    /\ Len(calls[h]) < MaxCalls
    /\ calls' = [calls EXCEPT ![h] = Append(@, "render")]
    /\ view' = [view EXCEPT ![h] = [state |-> "live", cfg |-> k, raw |-> raw,
                                    read |-> "never", held |-> TRUE]]
    /\ ret' = [NoRet EXCEPT !.op = "render", !.handle = h, !.code = c,
                            !.res = check(c), !.has = TRUE, !.slotRead = TRUE]
    /\ UNCHANGED <<engine, cfg, info, checkVars, build, pcmVars, wavVars, noteVars>>

\* Engine::render  (lib.rs 64-69): c and raw are what ucra_render returned
\* and wrote into the zeroed output slot
Render(h, k, c, raw) ==
    /\ Usable(h)
    /\ cfg[k] = "alive"
    /\ Len(calls[h]) < MaxCalls
    /\ calls' = [calls EXCEPT ![h] = Append(@, "render")]
    /\ LET r == check(c)
       IN  IF r = Ok
           THEN /\ view' = [view EXCEPT ![h] = [state |-> "live", cfg |-> k,
                                                raw |-> raw, read |-> "never",
                                                held |-> TRUE]]
                /\ ret' = [NoRet EXCEPT !.op = "render", !.handle = h,
                                        !.code = c, !.res = r, !.has = TRUE,
                                        !.slotRead = TRUE]
           ELSE /\ view' = [view EXCEPT ![h] = Expire(@)]
                /\ ret' = [NoRet EXCEPT !.op = "render", !.handle = h,
                                        !.code = c, !.res = r]
    /\ UNCHANGED <<engine, cfg, info, checkVars, build, pcmVars, wavVars, noteVars>>

\* RenderResult::pcm / frames / channels / sample_rate  (lib.rs 141-150)
\* called on a view whose borrow is still alive
ReadView(h) ==
    /\ view[h].state = "live"
    /\ view' = [view EXCEPT
                    ![h].read = IF cfg[view[h].cfg] = "alive"
                                THEN "cfg_alive" ELSE "cfg_gone",
                    ![h].held = /\ @
                                /\ engine[h] = "alive"
                                /\ calls[h][Len(calls[h])] = "render"]
    /\ UNCHANGED <<engine, calls, cfg, info, ret, checkVars, build, pcmVars, wavVars, noteVars>>

\* RenderConfig::new  (lib.rs 118-134)
NewConfig(k) ==
    /\ cfg[k] = "none"
    /\ \A j \in CfgIds : j < k => cfg[j] # "none"
    /\ cfg' = [cfg EXCEPT ![k] = "alive"]
    /\ UNCHANGED <<engine, calls, view, info, ret, checkVars, build, pcmVars, wavVars, noteVars>>

\* the configuration, its c_notes and the notes and curves it borrows go
\* out of scope; render borrowed it for the call only
DropConfig(k) ==
    /\ cfg[k] = "alive"
    /\ cfg' = [cfg EXCEPT ![k] = "dropped"]
    /\ UNCHANGED <<engine, calls, view, info, ret, checkVars, build, pcmVars, wavVars, noteVars>>

\* Drop for Engine  (lib.rs 72-76): the wrapper goes out of scope
DropEngine(h) ==
    /\ engine[h] = "alive"
    /\ engine' = [engine EXCEPT ![h] = "dropped"]
    /\ calls' = [calls EXCEPT ![h] = DropCalls(@)]
    /\ view' = [view EXCEPT ![h] = Expire(@)]
    /\ UNCHANGED <<cfg, info, ret, checkVars, build, pcmVars, wavVars, noteVars>>

----------------------------------------------------------------------------
(* String::from_utf8_lossy, as get_info uses it  (lib.rs 60) *)

Replacement == 65533

\* core::str::utf8_char_width of a lead byte
Utf8CharWidth(b) ==
    CASE b < 128 -> 1
      [] b \in 194..223 -> 2
      [] b \in 224..239 -> 3
      [] b \in 240..244 -> 4
      [] OTHER -> 0

IsCont(x) == x \in 128..191

\* the second byte a 3- or 4-byte sequence admits after lead byte b
SecondOk(b, x) ==
    CASE b = 224 -> x \in 160..191
      [] b \in 225..236 -> x \in 128..191
      [] b = 237 -> x \in 128..159
      [] b \in 238..239 -> x \in 128..191
      [] b = 240 -> x \in 144..191
      [] b \in 241..243 -> x \in 128..191
      [] b = 244 -> x \in 128..143
      [] OTHER -> FALSE

\* one turn of the decoding loop at index i: the code point produced and the
\* index the loop continues from; an invalid part becomes one U+FFFD
DecodeOne(s, i) ==
    LET b == s[i]
        at(j) == IF j <= Len(s) THEN s[j] ELSE 0
        w == Utf8CharWidth(b)
        bad(n) == [cp |-> Replacement, next |-> i + n]
    IN  CASE w = 1 -> [cp |-> b, next |-> i + 1]
          [] w = 2 ->
                IF IsCont(at(i + 1))
                THEN [cp |-> (b - 192) * 64 + (at(i + 1) - 128), next |-> i + 2]
                ELSE bad(1)
          [] w = 3 ->
                IF ~SecondOk(b, at(i + 1)) THEN bad(1)
                ELSE IF ~IsCont(at(i + 2)) THEN bad(2)
                ELSE [cp |-> (b - 224) * 4096 + (at(i + 1) - 128) * 64
                                + (at(i + 2) - 128),
                      next |-> i + 3]
          [] w = 4 ->
                IF ~SecondOk(b, at(i + 1)) THEN bad(1)
                ELSE IF ~IsCont(at(i + 2)) THEN bad(2)
                ELSE IF ~IsCont(at(i + 3)) THEN bad(3)
                ELSE [cp |-> (b - 240) * 262144 + (at(i + 1) - 128) * 4096
                                + (at(i + 2) - 128) * 64 + (at(i + 3) - 128),
                      next |-> i + 4]
          [] OTHER -> bad(1)

RECURSIVE DecodeSome(_, _, _)
\* at most k turns of the loop from index i: the code points and the index
\* reached
DecodeSome(s, i, k) ==
    IF k = 0 \/ i > Len(s) THEN [out |-> <<>>, next |-> i]
    ELSE LET one == DecodeOne(s, i)
             rest == DecodeSome(s, one.next, k - 1)
         IN  [out |-> <<one.cp>> \o rest.out, next |-> rest.next]

RECURSIVE Utf8From(_, _)
\* the code points of the bytes of s from index i on, twelve turns at a time
Utf8From(s, i) ==
    IF i > Len(s) THEN <<>>
    ELSE LET part == DecodeSome(s, i, 12)
         IN  part.out \o Utf8From(s, part.next)

FromUtf8Lossy(s) == Utf8From(s, 1)

RECURSIVE ScanSome(_, _, _)
\* the iterator advanced over at most k non-zero bytes from index i: the
\* index it stops at
ScanSome(buf, i, k) ==
    IF k = 0 \/ i > Len(buf) THEN i
    ELSE IF buf[i] = 0 THEN i
    ELSE ScanSome(buf, i + 1, k - 1)

RECURSIVE PositionFrom(_, _)
\* buf.iter().position(|&b| b == 0) searching from index i (1-based), twelve
\* bytes at a time: the count of bytes before the first zero byte, Len(buf)
\* when there is none
PositionFrom(buf, i) ==
    LET j == ScanSome(buf, i, 12)
    IN  IF j > Len(buf) THEN Len(buf)
        ELSE IF buf[j] = 0 THEN j - 1
        ELSE PositionFrom(buf, j)

\* unwrap_or(0) in place of unwrap_or(buf.len())
nulOrZero(buf) ==
    LET n == PositionFrom(buf, 1)
    IN  IF n = Len(buf) THEN 0 ELSE n

\* let nul = buf.iter().position(|&b| b == 0).unwrap_or(buf.len())
Nul(buf) == PositionFrom(buf, 1)

\* bytes the engine is seen to write: NUL, ASCII, a 2-byte and a 3-byte
\* sequence's bytes, a byte that is never valid
InfoBytes == {0, 85, 195, 169, 226, 255}

RECURSIVE SeqsUpTo(_, _)
\* the sequences over S of length at most n
SeqsUpTo(S, n) ==
    IF n = 0 THEN {<<>>}
    ELSE LET shorter == SeqsUpTo(S, n - 1)
         IN  shorter \cup {Append(t, x) : t \in shorter, x \in S}

\* what the engine leaves in the buffer: text, then fill up to the end
InfoAnswers == [text : SeqsUpTo(InfoBytes, MaxInfoLen), fill : {0, 67}]

\* the answers tried while the engine's lifecycle is explored
FewInfoAnswers == {a \in InfoAnswers : a.text = <<85>> /\ a.fill = 0}

\* the 128-byte buffer after ucra_engine_getinfo returned
FillBuffer(a) ==
    [i \in 1..InfoBufLen |-> IF i <= Len(a.text) THEN a.text[i] ELSE a.fill]

\* Engine::get_info  (lib.rs 53-62): c is the code of ucra_engine_getinfo,
\* which wrote info into the buffer
GetInfo(h, c) ==
    /\ Usable(h)
    /\ Len(calls[h]) < MaxCalls
    /\ calls' = [calls EXCEPT ![h] = Append(@, "getinfo")]
    /\ view' = [view EXCEPT ![h] = Expire(@)]
    /\ LET buf == FillBuffer(info)
           r == check(c)
       IN  IF r = Ok
           THEN ret' = [NoRet EXCEPT !.op = "get_info", !.handle = h,
                                     !.code = c, !.res = r, !.has = TRUE,
                                     !.text = FromUtf8Lossy(SubSeq(buf, 1, Nul(buf))),
                                     !.buf = buf]
           ELSE ret' = [NoRet EXCEPT !.op = "get_info", !.handle = h,
                                     !.code = c, !.res = r, !.buf = buf]
    /\ UNCHANGED <<engine, cfg, info, checkVars, build, pcmVars, wavVars, noteVars>>

----------------------------------------------------------------------------
(* The wrapper's lifecycle: engines, configurations and result views *)

\* the state before the first call, with the info text of the engine linked
LifeInit(answers) ==
    /\ engine = [h \in Handles |-> "none"]
    /\ calls = [h \in Handles |-> <<>>]
    /\ cfg = [k \in CfgIds |-> "none"]
    /\ view = [h \in Handles |-> NoView]
    /\ info \in answers
    /\ ret = NoRet

Init ==
    LifeInit(FewInfoAnswers) /\ CheckIdle /\ PcmIdle /\ WavIdle /\ NoteIdle

Next ==
    \/ \E c \in EngineCodes : EngineNew(c)
    \/ \E h \in Handles, c \in EngineCodes : GetInfo(h, c)
    \/ \E h \in Handles, k \in CfgIds, c \in EngineCodes, raw \in RawResults :
            Render(h, k, c, raw)
    \/ \E h \in Handles : ReadView(h)
    \/ \E k \in CfgIds : NewConfig(k)
    \/ \E k \in CfgIds : DropConfig(k)
    \/ \E h \in Handles : DropEngine(h)

Spec == Init /\ [][Next]_vars

(* The info query alone, over every buffer content of InfoAnswers *)

\* the state Engine::new leaves on success, with any info text
InitInfo ==
    /\ engine = [h \in Handles |-> IF h = 1 THEN "alive" ELSE "none"]
    /\ calls = [h \in Handles |-> IF h = 1 THEN <<"create">> ELSE <<>>]
    /\ cfg = [k \in CfgIds |-> "none"]
    /\ view = [h \in Handles |-> NoView]
    /\ info \in InfoAnswers
    /\ ret = [NoRet EXCEPT !.op = "new", !.handle = 1, !.res = Ok, !.has = TRUE]
    /\ CheckIdle
    /\ PcmIdle
    /\ WavIdle
    /\ NoteIdle

NextInfo ==
    \/ \E h \in Handles, c \in {0, 4} : GetInfo(h, c)
    \/ \E h \in Handles : DropEngine(h)

SpecInfo == InitInfo /\ [][NextInfo]_vars

----------------------------------------------------------------------------
(* Properties of the lifecycle *)

RECURSIVE Count(_, _)
\* how often x occurs in the sequence s
Count(s, x) ==
    IF s = <<>> THEN 0
    ELSE (IF s[1] = x THEN 1 ELSE 0) + Count(Tail(s), x)

\* C2: every handle that ucra_engine_create produced is destroyed exactly
\* once: not at all while its Engine is alive, once when the Engine has
\* gone, whatever get_info and render calls succeeded or failed in between.
DestroyedExactlyOnce ==
    \A h \in Handles :
        /\ engine[h] = "none" => calls[h] = <<>>
        /\ engine[h] = "alive" =>
                Count(calls[h], "create") = 1 /\ Count(calls[h], "destroy") = 0
        /\ engine[h] = "dropped" =>
                Count(calls[h], "create") = 1 /\ Count(calls[h], "destroy") = 1

\* an engine that saw a failing render has been dropped
DestroyedAfterFailure ==
    /\ ret.op = "render"
    /\ ret.code # 0
    /\ engine[ret.handle] = "dropped"
    /\ Count(calls[ret.handle], "destroy") = 1

\* C3: no foreign call is made with a handle after ucra_engine_destroy was
\* called on it: in the calls of a handle the successful create comes first
\* and a destroy comes last.
NoCallAfterDestroy ==
    \A h \in Handles :
        \A i \in 1..Len(calls[h]) :
            /\ calls[h][i] = "destroy" => i = Len(calls[h])
            /\ calls[h][i] = "create" <=> i = 1

\* a handle was created, used for get_info and render, and destroyed
UsedThenDestroyed ==
    \E h \in Handles :
        /\ engine[h] = "dropped"
        /\ Count(calls[h], "getinfo") > 0
        /\ Count(calls[h], "render") > 0
        /\ calls[h][Len(calls[h])] = "destroy"

\* C4: as claimed, a result view is never read after the configuration that
\* produced it was released.
NoReadAfterConfigReleased ==
    \A h \in Handles : view[h].read # "cfg_gone"

\* C4: as amended, a result view can be read only while the engine that
\* produced it is alive and has not been used since that render (the view
\* borrows the engine, not the configuration).
ReadOnlyWhileEngineBorrowed ==
    \A h \in Handles :
        /\ view[h].held
        /\ view[h].state = "live" =>
                engine[h] = "alive" /\ calls[h][Len(calls[h])] = "render"

\* a view was read after its configuration had been released
ReadWithConfigGone ==
    \E h \in Handles :
        /\ view[h].state = "live"
        /\ view[h].read = "cfg_gone"
        /\ cfg[view[h].cfg] = "dropped"

\* the error kind the documentation gives a non-zero code
ExpectedErr(c) ==
    IF c \in 1..7 THEN Err(KindOf[c]) ELSE Unknown(c)

\* C5: in create, get_info and render a non-zero code makes the operation
\* return the mapped error kind and no value: no Engine, no text, no view,
\* and the output slot of render is not read.
FailureShortCircuits ==
    ret.op \in {"new", "get_info", "render"} /\ ret.code # 0 =>
        /\ ret.res = ExpectedErr(ret.code)
        /\ ~ret.has
        /\ ret.text = <<>>
        /\ ~ret.slotRead
        /\ ret.op = "new" => ret.handle = 0
        /\ ret.op = "render" => view[ret.handle].state # "live"

\* a render failed with a code outside the table while a view was around
RenderFailedUnknown ==
    /\ ret.op = "render"
    /\ ret.code = 256
    /\ ret.res = Unknown(256)
    /\ view[ret.handle].state = "none"

\* C7: a successful info query returns the decoding of exactly the bytes
\* before the first zero byte of the 128-byte buffer, of all 128 bytes when
\* there is none; it succeeds whenever the code is 0, whatever the bytes.
InfoStopsAtFirstNul ==
    ret.op = "get_info" =>
        /\ Len(ret.buf) = InfoBufLen
        /\ ret.has <=> ret.code = 0
        /\ ret.has =>
            /\ \E n \in 0..Len(ret.buf) :
                    /\ \A i \in 1..n : ret.buf[i] # 0
                    /\ n = Len(ret.buf) \/ ret.buf[n + 1] = 0
                    /\ ret.text = FromUtf8Lossy(SubSeq(ret.buf, 1, n))
            /\ \A j \in 1..Len(ret.text) : ret.text[j] # 0

\* an invalid byte, a zero byte and more text: only U+FFFD is returned
InfoCutAndReplaced ==
    /\ ret.op = "get_info"
    /\ ret.has
    /\ SubSeq(ret.buf, 1, 4) = <<255, 0, 85, 67>>
    /\ ret.text = <<Replacement>>

----------------------------------------------------------------------------
(* RenderResult's accessors  (lib.rs 136-150) *)

\* 2^33 frames and 2^31 channels: each fits its field, the product is 2^64
Frames2p33 == <<0, 0, 0, 0, 2, 0, 0, 0>>
Channels2p31 == <<0, 0, 0, 128>>

\* 2^32 and 2^61 frames: with 2^31 channels, or with one, the product fits
\* usize but is more samples than a slice may hold
Frames2p32 == <<0, 0, 0, 0, 1, 0, 0, 0>>
Frames2p61 == <<0, 0, 0, 0, 0, 0, 0, 32>>

\* the buffer pointer as its address: null, the start of a float buffer,
\* and one and two bytes past it
PcmAddrs == {0, 4096, 4097, 4098}

\* the raw results the engine is taken to report
PcmRaws ==
    [pcm : PcmAddrs,
     frames : {U64(0), U64(1), U64(2), U64(3), Frames2p32, Frames2p33,
               Frames2p61},
     channels : {U32(0), U32(1), U32(2), Channels2p31},
     sample_rate : {U32(44100)}]

\* <*const f32>::is_null
IsNull(p) == p = 0

\* slice::from_raw_parts requires the pointer to be aligned for f32, whose
\* alignment is four bytes
Misaligned(p) == p % 4 # 0

\* slice::from_raw_parts requires len * size_of::<f32>() <= isize::MAX:
\* violated exactly from len = 2^61 on
TooLong(len) == len[8] >= 32

\* RenderResult::pcm  (lib.rs 142-146) on a 64-bit target, the outcomes a
\* build can produce: None; a slice of len samples; the unwinding overflow
\* panic of a debug build; for a pointer or a length from_raw_parts must
\* not be given (undefined behaviour), the abort of its precondition check
\* in a debug build, and in a release build either a slice of that length
\* or an abort
Pcm(raw, b) ==
    IF IsNull(raw.pcm) \/ raw.frames = U64(0)
    THEN {[kind |-> "none", len |-> <<>>]}
    ELSE LET len == MulW(Low(raw.frames, 8), Low(raw.channels, 8), 8)
         IN  IF len.over /\ b = "debug"
             THEN {[kind |-> "panic", len |-> <<>>]}
             ELSE IF ~Misaligned(raw.pcm) /\ ~TooLong(len.val)
             THEN {[kind |-> "some", len |-> len.val]}
             ELSE IF b = "debug"
             THEN {[kind |-> "abort", len |-> <<>>]}
             ELSE {[kind |-> "some", len |-> len.val],
                   [kind |-> "abort", len |-> <<>>]}

\* a RenderResult as a successful render returns it, not yet read
InitPcm ==
    /\ build \in Builds
    /\ rr \in PcmRaws
    /\ got = NotRead
    /\ CheckIdle
    /\ LifeIdle
    /\ WavIdle
    /\ NoteIdle

\* pcm(), frames(), channels() and sample_rate() called on the result
ReadResult ==
    /\ got = NotRead
    /\ \E p \in Pcm(rr, build) :
            got' = [kind |-> p.kind, len |-> p.len, frames |-> rr.frames,
                    channels |-> rr.channels, sample_rate |-> rr.sample_rate]
    /\ UNCHANGED <<rr, build, checkVars, lifeVars, wavVars, noteVars>>

NextPcm == ReadResult

SpecPcm == InitPcm /\ [][NextPcm]_vars

\* C6: pcm() is absent exactly when the buffer pointer is null or the frame
\* count is 0, and otherwise is a view of exactly frames * channels samples,
\* the product taken without wrap-around; frames(), channels() and
\* sample_rate() return the reported values unchanged.
PcmLenIsExactProduct ==
    got # NotRead =>
        /\ got.kind = "none" <=> (IsNull(rr.pcm) \/ Norm(rr.frames) = <<>>)
        /\ got.kind # "none" =>
                /\ got.kind = "some"
                /\ Norm(got.len) = Norm(MulBytes(rr.frames, rr.channels))
        /\ got.frames = rr.frames
        /\ got.channels = rr.channels
        /\ got.sample_rate = rr.sample_rate

----------------------------------------------------------------------------
(* write_wav_float32  (emit_wav.rs 4-26) *)

U16(n) == LeBytes(n, 2)

Riff == <<82, 73, 70, 70>>
Wave == <<87, 65, 86, 69>>
Fmt == <<102, 109, 116, 32>>
Data == <<100, 97, 116, 97>>

RECURSIVE Flatten(_)
\* the bytes of the samples, in memory order
Flatten(pcm) ==
    IF pcm = <<>> THEN <<>> ELSE pcm[1] \o Flatten(Tail(pcm))

\* whether an overflowing operation stops the function
Panics(r, b) == r.over /\ b = "debug"

\* whether a write_all that would bring the file to n bytes fails: the file
\* accepts room bytes, any number when room is -1
Fails(room, n) == room >= 0 /\ room < n

\* the bytes a failed write_all leaves in the file
Kept(bytes, room) == SubSeq(bytes, 1, room)

\* the function on a little-endian 64-bit target: what it returned and the
\* bytes the file holds afterwards.  disk: whether File::create succeeds;
\* room: how many bytes the file accepts before a write_all returns Err
WriteWavFloat32(pcm, sample_rate, channels, disk, room, b) ==
    LET data_size == Low(LeBytes(Len(pcm) * 4, 8), 4)
        file_size == AddW(data_size, U32(36), 4)
        upToRate == Riff \o file_size.val \o Wave \o Fmt \o U32(16) \o U16(3)
                        \o Low(channels, 2) \o sample_rate
        rate1 == MulW(sample_rate, channels, 4)
        byte_rate == MulW(rate1.val, U32(4), 4)
        upToAlign == upToRate \o byte_rate.val
        align == MulW(channels, U32(4), 4)
        block_align == Low(align.val, 2)
        all == upToAlign \o block_align \o U16(32) \o Data \o data_size
                   \o Flatten(pcm)
    IN  IF ~disk THEN [res |-> "io_error", file |-> <<>>]
        ELSE IF Panics(file_size, b) THEN [res |-> "panic", file |-> <<>>]
        ELSE IF Fails(room, Len(upToRate))
        THEN [res |-> "io_error", file |-> Kept(upToRate, room)]
        ELSE IF Panics(rate1, b) \/ Panics(byte_rate, b)
        THEN [res |-> "panic", file |-> upToRate]
        ELSE IF Fails(room, Len(upToAlign))
        THEN [res |-> "io_error", file |-> Kept(upToAlign, room)]
        ELSE IF Panics(align, b) THEN [res |-> "panic", file |-> upToAlign]
        ELSE IF Fails(room, Len(all))
        THEN [res |-> "io_error", file |-> Kept(all, room)]
        ELSE [res |-> "ok", file |-> all]

\* f32 samples as their four bytes in memory: 0.0 and 1.0
Samples == {<<0, 0, 0, 0>>, <<0, 0, 128, 63>>}

WavInputs ==
    [pcm : SeqsUpTo(Samples, MaxSamples),
     sample_rate : {U32(0), U32(8000), U32(44100), <<255, 255, 255, 255>>},
     channels : {U32(1), U32(2), U32(65535), U32(65536), U32(65537),
                 <<0, 0, 0, 64>>},
     disk : BOOLEAN,
     room : {-1, 0, 28, 30, 32, 44, 46}]

InitWav ==
    /\ build \in Builds
    /\ wav \in WavInputs
    /\ file = <<>>
    /\ wavRes = "pending"
    /\ CheckIdle
    /\ LifeIdle
    /\ rr = [pcm |-> 0, frames |-> U64(0), channels |-> U32(0),
             sample_rate |-> U32(0)]
    /\ got = NotRead
    /\ NoteIdle

WriteWav ==
    /\ wavRes = "pending"
    /\ LET w == WriteWavFloat32(wav.pcm, wav.sample_rate, wav.channels,
                                wav.disk, wav.room, build)
       IN  /\ wavRes' = w.res
           /\ file' = w.file
    /\ UNCHANGED <<wav, build, checkVars, lifeVars, pcmVars, noteVars>>

NextWav == WriteWav

SpecWav == InitWav /\ [][NextWav]_vars

\* the w bytes of the file at offset off
ReadAt(off, w) == SubSeq(file, off + 1, off + w)

\* C8: for every sample rate, channel count and sample buffer, the header
\* written by write_wav_float32 reads back as the original sample rate, the
\* original channel count and format tag 3, with byte rate
\* sample_rate * channels * 4, block alignment channels * 4 and data size
\* 4 * sample count, none of them truncated or wrapped.
WavHeaderRoundTrip ==
    wavRes \notin {"pending", "io_error"} =>
        /\ wavRes = "ok"
        /\ Len(file) = 44 + 4 * Len(wav.pcm)
        /\ ReadAt(20, 2) = U16(3)
        /\ Norm(ReadAt(22, 2)) = Norm(wav.channels)
        /\ ReadAt(24, 4) = wav.sample_rate
        /\ Norm(ReadAt(28, 4))
                = Norm(MulBytes(MulBytes(wav.sample_rate, wav.channels), <<4>>))
        /\ Norm(ReadAt(32, 2)) = Norm(MulBytes(wav.channels, <<4>>))
        /\ Norm(ReadAt(40, 4)) = Norm(LeBytes(4 * Len(wav.pcm), 8))

----------------------------------------------------------------------------
(* Curves, notes and RenderConfig::new  (lib.rs 78-134) *)

\* An Option or a nullable pointer is <<>> (None, null) or <<x>>.

\* `len as u32` of a usize: its low four bytes
LenAsU32(len) == Low(len, 4)

\* F0Curve::new  (lib.rs 106)
F0CurveNew(time_sec, f0_hz) ==
    IF time_sec.len # f0_hz.len
    THEN [panic |-> TRUE, curve |-> NoCurve]
    ELSE [panic |-> FALSE,
          curve |-> [exists |-> TRUE,
                     raw |-> [time_sec |-> time_sec.ptr, value |-> f0_hz.ptr,
                              length |-> LenAsU32(time_sec.len)],
                     marker |-> [time_sec |-> time_sec, value |-> f0_hz]]]

\* EnvCurve::new  (lib.rs 109)
EnvCurveNew(time_sec, value) ==
    IF time_sec.len # value.len
    THEN [panic |-> TRUE, curve |-> NoCurve]
    ELSE [panic |-> FALSE,
          curve |-> [exists |-> TRUE,
                     raw |-> [time_sec |-> time_sec.ptr, value |-> value.ptr,
                              length |-> LenAsU32(time_sec.len)],
                     marker |-> [time_sec |-> time_sec, value |-> value]]]

\* From<&NoteSegment> for sys::UCRA_NoteSegment  (lib.rs 89-103)
RawNote(n) ==
    [start_sec |-> n.start_sec,
     duration_sec |-> n.duration_sec,
     midi_note |-> n.midi_note,
     velocity |-> n.velocity,
     lyric |-> <<>>,
     f0_override |-> IF n.f0_override = <<>> THEN <<>>
                     ELSE <<n.f0_override[1].raw>>,
     env_override |-> IF n.env_override = <<>> THEN <<>>
                      ELSE <<n.env_override[1].raw>>]

\* RenderConfig::new  (lib.rs 119-133)
RenderConfigNew(sample_rate, channels, notes) ==
    LET c_notes == [i \in 1..Len(notes) |-> RawNote(notes[i])]
    IN  [exists |-> TRUE,
         raw |-> [sample_rate |-> sample_rate, channels |-> channels,
                  block_size |-> 0, flags |-> 0, notes |-> c_notes,
                  note_count |-> LenAsU32(U64(Len(c_notes))),
                  options |-> <<>>, option_count |-> 0],
         c_notes |-> c_notes]

\* 2^32 and 2^32 + 1 samples: more than a u32 length field can record
Len2p32 == <<0, 0, 0, 0, 1, 0, 0, 0>>
Len2p32Plus1 == <<1, 0, 0, 0, 1, 0, 0, 0>>

\* the lengths of the slices the driver hands to the constructors
SliceLens == {U64(n) : n \in 0..MaxCurveLen} \cup {Len2p32, Len2p32Plus1}

\* slices of n time stamps and of n values
TimeSlice(n) == [ptr |-> "time_sec", len |-> n]
ValueSlice(n) == [ptr |-> "value", len |-> n]

\* the notes the driver can write with the curves it holds
NoteChoices ==
    [start_sec : {"0.0"},
     duration_sec : {"0.1"},
     midi_note : {69},
     velocity : {100},
     lyric : {<<>>, <<"la">>},
     f0_override : {<<>>} \cup (IF f0.exists THEN {<<f0>>} ELSE {}),
     env_override : {<<>>} \cup (IF env.exists THEN {<<env>>} ELSE {})]

\* the driver builds its curves first, then the notes and the configuration;
\* a panic ends it
NewF0Curve(n, m) ==
    /\ ~tried.panicked
    /\ ~config.exists
    /\ LET r == F0CurveNew(TimeSlice(n), ValueSlice(m))
       IN  /\ f0' = IF r.panic THEN f0 ELSE r.curve
           /\ tried' = [NoTry EXCEPT !.op = "f0", !.time = TimeSlice(n),
                                     !.value = ValueSlice(m),
                                     !.panicked = r.panic]
    /\ UNCHANGED <<env, config, build, checkVars, lifeVars, pcmVars, wavVars>>

NewEnvCurve(n, m) ==
    /\ ~tried.panicked
    /\ ~config.exists
    /\ LET r == EnvCurveNew(TimeSlice(n), ValueSlice(m))
       IN  /\ env' = IF r.panic THEN env ELSE r.curve
           /\ tried' = [NoTry EXCEPT !.op = "env", !.time = TimeSlice(n),
                                     !.value = ValueSlice(m),
                                     !.panicked = r.panic]
    /\ UNCHANGED <<f0, config, build, checkVars, lifeVars, pcmVars, wavVars>>

BuildConfig(notes) ==
    /\ ~tried.panicked
    /\ ~config.exists
    /\ config' = RenderConfigNew(U32(44100), U32(1), notes)
    /\ tried' = [NoTry EXCEPT !.op = "config", !.notes = notes]
    /\ UNCHANGED <<f0, env, build, checkVars, lifeVars, pcmVars, wavVars>>

InitNotes ==
    /\ NoteIdle
    /\ CheckIdle
    /\ LifeIdle
    /\ PcmIdle
    /\ wav = [pcm |-> <<>>, sample_rate |-> U32(0), channels |-> U32(0),
              disk |-> TRUE, room |-> -1]
    /\ file = <<>>
    /\ wavRes = "pending"

NextNotes ==
    \/ \E n, m \in SliceLens : NewF0Curve(n, m)
    \/ \E n, m \in SliceLens : NewEnvCurve(n, m)
    \/ \E notes \in SeqsUpTo(NoteChoices, MaxNotes) : BuildConfig(notes)

SpecNotes == InitNotes /\ [][NextNotes]_vars

\* the number a u32 field holds
U32Val(b) == b[1] + 256 * b[2] + 65536 * b[3] + 16777216 * b[4]

\* C9: the raw configuration has as many notes as were supplied, in the same
\* order, and each raw note carries start time, duration, pitch, velocity,
\* the lyric text, and the curve references of its note (null exactly when
\* the option is absent).
NotesCarriedAcross ==
    config.exists =>
        /\ U32Val(config.raw.note_count) = Len(tried.notes)
        /\ Len(config.raw.notes) = Len(tried.notes)
        /\ \A i \in 1..Len(tried.notes) :
            LET n == tried.notes[i]
                c == config.raw.notes[i]
            IN  /\ c.start_sec = n.start_sec
                /\ c.duration_sec = n.duration_sec
                /\ c.midi_note = n.midi_note
                /\ c.velocity = n.velocity
                /\ c.lyric = n.lyric
                /\ c.f0_override = <<>> <=> n.f0_override = <<>>
                /\ n.f0_override # <<>> => c.f0_override = <<n.f0_override[1].raw>>
                /\ c.env_override = <<>> <=> n.env_override = <<>>
                /\ n.env_override # <<>> => c.env_override = <<n.env_override[1].raw>>

\* a curve whose two slices have one length, which its length field holds
CurveSound(c) ==
    /\ c.marker.time_sec.len = c.marker.value.len
    /\ Norm(c.raw.length) = Norm(c.marker.time_sec.len)

\* C10: every curve that exists has time and value sequences of the same
\* length, recorded in its length field; a constructor given sequences of
\* different lengths panics and produces no curve, so no configuration
\* refers to a curve with mismatched sequences.
CurvesEqualLength ==
    /\ f0.exists => CurveSound(f0)
    /\ env.exists => CurveSound(env)
    /\ tried.op \in {"f0", "env"} =>
            (tried.panicked <=> tried.time.len # tried.value.len)
    /\ config.exists =>
        \A i \in 1..Len(tried.notes) :
            /\ \A j \in 1..Len(tried.notes[i].f0_override) :
                    /\ CurveSound(tried.notes[i].f0_override[j])
                    /\ config.raw.notes[i].f0_override[j]
                            = tried.notes[i].f0_override[j].raw
            /\ \A j \in 1..Len(tried.notes[i].env_override) :
                    /\ CurveSound(tried.notes[i].env_override[j])
                    /\ config.raw.notes[i].env_override[j]
                            = tried.notes[i].env_override[j].raw

----------------------------------------------------------------------------
(* check applied to one result code *)

InitCheck ==
    /\ code \in Codes
    /\ checked = Pending
    /\ LifeIdle
    /\ PcmIdle
    /\ WavIdle
    /\ NoteIdle

ApplyCheck ==
    /\ checked = Pending
    /\ checked' = check(code)
    /\ UNCHANGED <<code, lifeVars, build, pcmVars, wavVars, noteVars>>

NextCheck == ApplyCheck

SpecCheck == InitCheck /\ [][NextCheck]_vars

\* C1: check maps 0 to success, 1..7 to the seven documented error kinds in
\* order, and every other 32-bit value to Unknown carrying that value
\* unchanged; success is returned if and only if the code is 0.
CheckTotalExact ==
    checked # Pending =>
        /\ (code = 0 => checked.kind = "Ok")
        /\ (code \in 1..7 => checked.kind = KindOf[code] /\ checked.raw = 0)
        /\ (code \notin 0..7 => checked.kind = "Unknown" /\ checked.raw = code)
        /\ (checked.kind = "Ok" <=> code = 0)

\* a negative code outside the table has been mapped to Unknown of itself
CheckWitness ==
    /\ code = MinI32
    /\ checked = Unknown(MinI32)

====
